---- MODULE Spec2Model ----
(***************************************************************************)
(* Model of iceberg::Schema (src/src/iceberg/schema.cc): the nested type   *)
(* tree, the three lazily built lookup caches, FindFieldById /             *)
(* FindFieldByName, and select / project with PruneColumnVisitor.          *)
(*                                                                         *)
(* Strings are sequences of symbols (<<"a", ".", "b">> is "a.b"), so that  *)
(* path concatenation and ASCII lowercasing are computed, not assumed.     *)
(***************************************************************************)
EXTENDS Integers, Sequences, FiniteSets, TLC

VARIABLES schema, id_to_field_, name_to_id_, lowercase_name_to_id_,
          id_to_field_flag_, name_to_id_flag_, lowercase_name_to_id_flag_,
          ret, threads, builds

vars == <<schema, id_to_field_, name_to_id_, lowercase_name_to_id_,
          id_to_field_flag_, name_to_id_flag_, lowercase_name_to_id_flag_,
          ret, threads, builds>>

----------------------------------------------------------------------------
(* Strings *)

Str(c) == <<c>>

Dot == <<".">>

ALL_COLUMNS == <<"*">>

kElementName == <<"element">>

kKeyName == <<"key">>

kValueName == <<"value">>

\* StringUtils::ToLower on one symbol: ASCII upper case letters fold, every
\* other symbol is unchanged.
ToLowerChar(c) ==
  CASE c = "A" -> "a"
    [] c = "B" -> "b"
    [] c = "C" -> "c"
    [] c = "D" -> "d"
    [] c = "X" -> "x"
    [] c = "L" -> "l"
    [] c = "M" -> "m"
    [] c = "KEY" -> "key"
    [] c = "VALUE" -> "value"
    [] c = "ELEMENT" -> "element"
    [] OTHER -> c

ToLower(s) == [i \in 1..Len(s) |-> ToLowerChar(s[i])]

----------------------------------------------------------------------------
(* Type tree *)

Primitive == [kind |-> "primitive", fields |-> <<>>]

StructType(fields) == [kind |-> "struct", fields |-> fields]

SchemaField(field_id, name, type, optional, doc) ==
  [field_id |-> field_id, name |-> name, type |-> type,
   optional |-> optional, doc |-> doc]

ListType(element) == [kind |-> "list", fields |-> <<element>>]

MapType(key, value) == [kind |-> "map", fields |-> <<key, value>>]

is_primitive(type) == type.kind = "primitive"

Schema(fields, schema_id) == [fields |-> fields, schema_id |-> schema_id]

\* The fields of the nested closure, as a set.
RECURSIVE AllFields(_)
AllFields(fields) ==
  UNION {{fields[i]} \cup AllFields(fields[i].type.fields) : i \in 1..Len(fields)}

AllIds(s) == {f.field_id : f \in AllFields(s.fields)}

\* Schema::Equals: same schema_id and the same (deep) field sequence.
Equals(s1, s2) == s1.schema_id = s2.schema_id /\ s1.fields = s2.fields

----------------------------------------------------------------------------
(* Status / Result *)

OK == [kind |-> "ok", what |-> "", id |-> 0, path |-> <<>>, prev |-> 0, curr |-> 0]

DuplicateFieldId(id) ==
  [kind |-> "InvalidSchema", what |-> "Duplicate field id found",
   id |-> id, path |-> <<>>, prev |-> 0, curr |-> 0]

DuplicatePath(path, prev, curr) ==
  [kind |-> "InvalidSchema", what |-> "Duplicate path found",
   id |-> 0, path |-> path, prev |-> prev, curr |-> curr]

InvalidArgument(what, id) ==
  [kind |-> "InvalidArgument", what |-> what,
   id |-> id, path |-> <<>>, prev |-> 0, curr |-> 0]

EmptyMap == [k \in {} |-> 0]

\* std::unordered_map::try_emplace: inserts only when the key is absent.
try_emplace(m, k, v) == IF k \in DOMAIN m THEN m ELSE m @@ (k :> v)

----------------------------------------------------------------------------
(* IdToFieldVisitor *)

RECURSIVE IdToFieldVisitFields(_, _, _)
RECURSIVE IdToFieldVisit(_, _)

\* A visitor that descends into struct types only.
IdToFieldVisitStructsOnly(type, acc) ==
  IF type.kind # "struct" THEN acc
  ELSE IdToFieldVisitFields(type.fields, 1, acc)

\* The visitor loop with an insertion that overwrites instead of failing.
RECURSIVE IdToFieldVisitFieldsOverwrite(_, _, _)
IdToFieldVisitFieldsOverwrite(fields, i, acc) ==
  IF acc.status # OK \/ i > Len(fields) THEN acc
  ELSE LET field == fields[i] IN
       IdToFieldVisitFieldsOverwrite(fields, i + 1,
         IdToFieldVisit(field.type,
           [acc EXCEPT !.map = (field.field_id :> field) @@ acc.map]))

\* The loop of IdToFieldVisitor::Visit(const NestedType&): acc is the map
\* being filled (a reference to the schema's member) and the status so far.
IdToFieldVisitFields(fields, i, acc) ==
  IF acc.status # OK \/ i > Len(fields) THEN acc
  ELSE LET field == fields[i] IN
       IF field.field_id \in DOMAIN acc.map
       THEN [acc EXCEPT !.status = DuplicateFieldId(field.field_id)]
       ELSE IdToFieldVisitFields(fields, i + 1,
              IdToFieldVisit(field.type,
                [acc EXCEPT !.map = acc.map @@ (field.field_id :> field)]))

IdToFieldVisit(type, acc) ==
  IF is_primitive(type) THEN acc
  ELSE IdToFieldVisitFields(type.fields, 1, acc)

----------------------------------------------------------------------------
(* NameToIdVisitor *)

\* No quoting function is passed by the schema, so the name is used as is.
BuildPath(prefix, field_name, case_sensitive) ==
  IF case_sensitive
  THEN (IF prefix = <<>> THEN field_name ELSE prefix \o Dot \o field_name)
  ELSE (IF prefix = <<>> THEN ToLower(field_name)
        ELSE prefix \o Dot \o ToLower(field_name))

\* A short path that skips the hop through a struct map key as well.
NewShortPathKeyToo(type, field, short_path, case_sensitive) ==
  IF type.kind \in {"list", "map"} /\ field.type.kind = "struct" THEN short_path
  ELSE BuildPath(short_path, field.name, case_sensitive)

\* A short path that skips the hop through a list element only.
NewShortPathListOnly(type, field, short_path, case_sensitive) ==
  IF type.kind = "list" /\ field.type.kind = "struct" THEN short_path
  ELSE BuildPath(short_path, field.name, case_sensitive)

\* The short path the visitor hands to a child field of a nested type.
NewShortPath(type, field, short_path, case_sensitive) ==
  IF type.kind = "list"
  THEN (IF field.type.kind = "struct" THEN short_path
        ELSE BuildPath(short_path, field.name, case_sensitive))
  ELSE IF type.kind = "map"
  THEN (IF field.name = kValueName /\ field.type.kind = "struct" THEN short_path
        ELSE BuildPath(short_path, field.name, case_sensitive))
  ELSE BuildPath(short_path, field.name, case_sensitive)

RECURSIVE NameToIdVisitFields(_, _, _, _, _, _)
RECURSIVE NameToIdVisit(_, _, _, _, _)

\* The per-field body shared by Visit(ListType), Visit(MapType) and
\* Visit(StructType); acc holds name_to_id_, short_name_to_id_ and the status.
NameToIdVisitFields(type, i, path, short_path, cs, acc) ==
  IF acc.status # OK \/ i > Len(type.fields) THEN acc
  ELSE LET field == type.fields[i]
           VisitField(new_path, new_short_path) ==
             IF new_path \in DOMAIN acc.name_to_id
             THEN [acc EXCEPT !.status =
                     DuplicatePath(new_path, acc.name_to_id[new_path],
                                   field.field_id)]
             ELSE NameToIdVisitFields(type, i + 1, path, short_path, cs,
                    NameToIdVisit(field.type, new_path, new_short_path, cs,
                      [acc EXCEPT
                         !.name_to_id =
                            acc.name_to_id @@ (new_path :> field.field_id),
                         !.short_name_to_id =
                            try_emplace(acc.short_name_to_id, new_short_path,
                                        field.field_id)]))
       IN VisitField(BuildPath(path, field.name, cs),
                     NewShortPath(type, field, short_path, cs))

NameToIdVisit(type, path, short_path, cs, acc) ==
  IF is_primitive(type) THEN acc
  ELSE NameToIdVisitFields(type, 1, path, short_path, cs, acc)

\* A merge in which a short name replaces the canonical entry of its key.
FinishShortFirst(name_to_id, short_name_to_id) ==
  [k \in DOMAIN name_to_id \cup DOMAIN short_name_to_id |->
     IF k \in DOMAIN short_name_to_id THEN short_name_to_id[k] ELSE name_to_id[k]]

\* NameToIdVisitor::Finish: short names never overwrite canonical ones.
Finish(name_to_id, short_name_to_id) ==
  [k \in DOMAIN name_to_id \cup DOMAIN short_name_to_id |->
     IF k \in DOMAIN name_to_id THEN name_to_id[k] ELSE short_name_to_id[k]]

----------------------------------------------------------------------------
(* Schema: lazily built caches *)

Caches(idf, nid, lnid, idflag, nflag, lflag) ==
  [id_to_field_ |-> idf, name_to_id_ |-> nid, lowercase_name_to_id_ |-> lnid,
   id_to_field_flag_ |-> idflag, name_to_id_flag_ |-> nflag,
   lowercase_name_to_id_flag_ |-> lflag]

\* The caches of a Schema right after construction.
NewCaches == Caches(EmptyMap, EmptyMap, EmptyMap, FALSE, FALSE, FALSE)


\* InitIdToFieldMap without the check that the cache is still empty.
InitIdToFieldMapEveryTime(s, c) ==
  LET Visited(acc) ==
        [caches |-> [c EXCEPT !.id_to_field_ = acc.map], status |-> acc.status]
  IN Visited(IdToFieldVisitFields(s.fields, 1,
               [map |-> c.id_to_field_, status |-> OK]))

\* Schema::InitIdToFieldMap: the visitor fills the member map in place, so
\* the entries inserted before a failure stay in it.
InitIdToFieldMap(s, c) ==
  IF DOMAIN c.id_to_field_ # {} THEN [caches |-> c, status |-> OK]
  ELSE LET Visited(acc) ==
             [caches |-> [c EXCEPT !.id_to_field_ = acc.map], status |-> acc.status]
       IN Visited(IdToFieldVisitFields(s.fields, 1,
                    [map |-> c.id_to_field_, status |-> OK]))

\* Schema::InitNameToIdMap / InitLowerCaseNameToIdMap, on the member map `m`.
InitNameMap(s, m, case_sensitive) ==
  IF DOMAIN m # {} THEN [map |-> m, status |-> OK]
  ELSE LET Visited(acc) ==
             IF acc.status # OK
             THEN [map |-> acc.name_to_id, status |-> acc.status]
             ELSE [map |-> Finish(acc.name_to_id, acc.short_name_to_id),
                   status |-> OK]
       IN Visited(NameToIdVisitFields(StructType(s.fields), 1, <<>>, <<>>,
                    case_sensitive,
                    [name_to_id |-> m, short_name_to_id |-> EmptyMap,
                     status |-> OK]))

InitNameToIdMap(s, c) ==
  LET Stored(r) == [caches |-> [c EXCEPT !.name_to_id_ = r.map],
                    status |-> r.status]
  IN Stored(InitNameMap(s, c.name_to_id_, TRUE))

InitLowerCaseNameToIdMap(s, c) ==
  LET Stored(r) == [caches |-> [c EXCEPT !.lowercase_name_to_id_ = r.map],
                    status |-> r.status]
  IN Stored(InitNameMap(s, c.lowercase_name_to_id_, FALSE))

\* LazyInitWithCallOnce(flag, init): a one-shot guard.  The first call runs
\* init and hands its status to the caller; the flag is then set and later
\* calls return OK without running init.
LazyInitWithCallOnce(flag, c, init) ==
  IF c[flag] THEN [caches |-> c, status |-> OK]
  ELSE [caches |-> [init.caches EXCEPT ![flag] = TRUE], status |-> init.status]

Found(c, field) == [caches |-> c, status |-> OK, value |-> <<field>>]

NotFound(c) == [caches |-> c, status |-> OK, value |-> <<>>]

Unexpected(c, status) == [caches |-> c, status |-> status, value |-> <<>>]

FindFieldById(s, c, field_id) ==
  LET Lookup(c1, status) ==
        IF status # OK THEN Unexpected(c1, status)
        ELSE IF field_id \notin DOMAIN c1.id_to_field_ THEN NotFound(c1)
        ELSE Found(c1, c1.id_to_field_[field_id])
      After(init) == Lookup(init.caches, init.status)
  IN After(LazyInitWithCallOnce("id_to_field_flag_", c, InitIdToFieldMap(s, c)))

\* FindFieldByName that searches the lowercase index for the name as given.
FindFieldByNameAsGiven(s, c, name, case_sensitive) ==
  LET Lookup(c1, status, map) ==
        IF status # OK THEN Unexpected(c1, status)
        ELSE IF name \notin DOMAIN map THEN NotFound(c1)
        ELSE FindFieldById(s, c1, map[name])
      Sensitive(init) == Lookup(init.caches, init.status, init.caches.name_to_id_)
      Insensitive(init) ==
        Lookup(init.caches, init.status, init.caches.lowercase_name_to_id_)
  IN IF case_sensitive
     THEN Sensitive(LazyInitWithCallOnce("name_to_id_flag_", c,
                                         InitNameToIdMap(s, c)))
     ELSE Insensitive(LazyInitWithCallOnce("lowercase_name_to_id_flag_", c,
                                           InitLowerCaseNameToIdMap(s, c)))

FindFieldByName(s, c, name, case_sensitive) ==
  LET Lookup(c1, status, map, key) ==
        IF status # OK THEN Unexpected(c1, status)
        ELSE IF key \notin DOMAIN map THEN NotFound(c1)
        ELSE FindFieldById(s, c1, map[key])
      Sensitive(init) ==
        Lookup(init.caches, init.status, init.caches.name_to_id_, name)
      Insensitive(init) ==
        Lookup(init.caches, init.status, init.caches.lowercase_name_to_id_,
               ToLower(name))
  IN IF case_sensitive
     THEN Sensitive(LazyInitWithCallOnce("name_to_id_flag_", c,
                                         InitNameToIdMap(s, c)))
     ELSE Insensitive(LazyInitWithCallOnce("lowercase_name_to_id_flag_", c,
                                           InitLowerCaseNameToIdMap(s, c)))

\* FindFieldByName(name) with the flag omitted: case_sensitive defaults to true.
FindFieldByNameDefault(s, c, name) == FindFieldByName(s, c, name, TRUE)

----------------------------------------------------------------------------
(* PruneColumnVisitor *)

\* A visitor result: a status and a possibly-null type (<<>> is nullptr).
Null == [status |-> OK, result |-> <<>>]

Type(t) == [status |-> OK, result |-> <<t>>]

Error(status) == [status |-> status, result |-> <<>>]

\* An entry of selected_types: `original` says that the pointer is the
\* field's own type pointer (every visitor result is a fresh allocation).
Selected(t, original) == [type |-> <<t>>, original |-> original]

Dropped == [type |-> <<>>, original |-> FALSE]

\* ListType(field_id, type, optional): the element field is named "element"
\* and has no doc.
ListTypeOf(field_id, type, optional) ==
  ListType(SchemaField(field_id, kElementName, type, optional, <<>>))

\* PruneColumnVisitor::ProjectList; child_result is a visitor result, never
\* the element's own type pointer.
ProjectList(element_field, child_result) ==
  IF child_result = <<>>
  THEN Error(InvalidArgument("Cannot project a list when the element result is null",
                             0))
  ELSE Type(ListTypeOf(element_field.field_id, child_result[1],
                       element_field.optional))

\* PruneColumnVisitor::ProjectMap; the rebuilt value field has no doc.
ProjectMap(key_field, value_field, value_result) ==
  IF value_result = <<>>
  THEN Error(InvalidArgument(
               "Attempted to project a map without a defined map value type",
               0))
  ELSE Type(MapType(key_field,
                    SchemaField(value_field.field_id, value_field.name,
                                value_result[1], value_field.optional, <<>>)))

RECURSIVE PruneVisit(_, _, _)
RECURSIVE PruneStructFields(_, _, _, _, _)

\* The second loop of Visit(StructType) rebuilding a field without its doc.
RECURSIVE SelectedFieldsNoDoc(_, _, _)
SelectedFieldsNoDoc(fields, selected_types, i) ==
  IF i > Len(fields) THEN <<>>
  ELSE LET rest == SelectedFieldsNoDoc(fields, selected_types, i + 1) IN
       IF selected_types[i].original THEN <<fields[i]>> \o rest
       ELSE IF selected_types[i].type # <<>>
       THEN <<SchemaField(fields[i].field_id, fields[i].name,
                          selected_types[i].type[1], fields[i].optional,
                          <<>>)>> \o rest
       ELSE rest

\* Second loop of Visit(StructType): the surviving fields, in order.
RECURSIVE SelectedFields(_, _, _)
SelectedFields(fields, selected_types, i) ==
  IF i > Len(fields) THEN <<>>
  ELSE LET rest == SelectedFields(fields, selected_types, i + 1) IN
       IF selected_types[i].original THEN <<fields[i]>> \o rest
       ELSE IF selected_types[i].type # <<>>
       THEN <<SchemaField(fields[i].field_id, fields[i].name,
                          selected_types[i].type[1], fields[i].optional,
                          fields[i].doc)>> \o rest
       ELSE rest


\* A first loop of Visit(StructType) that drops a selected struct field that
\* has no fields, instead of keeping it as an empty struct.
PruneStructFieldsDroppingEmpty(fields, i, selected_ids, select_full_types, selected_types) ==
  IF i > Len(fields) THEN [status |-> OK, selected_types |-> selected_types]
  ELSE LET field == fields[i]
           next(entry) == PruneStructFields(fields, i + 1, selected_ids,
                                            select_full_types,
                                            Append(selected_types, entry))
           stop(status) == [status |-> status, selected_types |-> selected_types]
           Entry(child) ==
             IF field.field_id \in selected_ids
             THEN IF select_full_types THEN Selected(field.type, TRUE)
                  ELSE IF field.type.kind = "struct"
                  THEN (IF child.result = <<>>
                        THEN (IF field.type.fields = <<>> THEN Dropped
                              ELSE Selected(StructType(<<>>), FALSE))
                        ELSE Selected(child.result[1], FALSE))
                  ELSE Selected(field.type, TRUE)
             ELSE IF child.result # <<>>
             THEN Selected(child.result[1], FALSE)
             ELSE Dropped
           Visited(child) ==
             IF child.status # OK THEN stop(child.status)
             ELSE IF /\ field.field_id \in selected_ids
                     /\ ~select_full_types
                     /\ field.type.kind # "struct"
                     /\ ~is_primitive(field.type)
             THEN stop(InvalidArgument(
                         "Cannot explicitly project List or Map types",
                         field.field_id))
             ELSE next(Entry(child))
       IN Visited(PruneVisit(field.type, selected_ids, select_full_types))

\* A first loop of Visit(StructType) that lets a project select a list or a
\* map field, keeping its type whole as it does for a primitive.
PruneStructFieldsAnyType(fields, i, selected_ids, select_full_types, selected_types) ==
  IF i > Len(fields) THEN [status |-> OK, selected_types |-> selected_types]
  ELSE LET field == fields[i]
           next(entry) == PruneStructFields(fields, i + 1, selected_ids,
                                            select_full_types,
                                            Append(selected_types, entry))
           stop(status) == [status |-> status, selected_types |-> selected_types]
           Entry(child) ==
             IF field.field_id \in selected_ids
             THEN IF select_full_types THEN Selected(field.type, TRUE)
                  ELSE IF field.type.kind = "struct"
                  THEN (IF child.result = <<>>
                        THEN Selected(StructType(<<>>), FALSE)
                        ELSE Selected(child.result[1], FALSE))
                  ELSE Selected(field.type, TRUE)
             ELSE IF child.result # <<>>
             THEN Selected(child.result[1], FALSE)
             ELSE Dropped
           Visited(child) ==
             IF child.status # OK THEN stop(child.status)
             ELSE next(Entry(child))
       IN Visited(PruneVisit(field.type, selected_ids, select_full_types))

\* First loop of Visit(StructType): one selected_types entry per field, or
\* the first error.
PruneStructFields(fields, i, selected_ids, select_full_types, selected_types) ==
  IF i > Len(fields) THEN [status |-> OK, selected_types |-> selected_types]
  ELSE LET field == fields[i]
           next(entry) == PruneStructFields(fields, i + 1, selected_ids,
                                            select_full_types,
                                            Append(selected_types, entry))
           stop(status) == [status |-> status, selected_types |-> selected_types]
           Entry(child) ==
             IF field.field_id \in selected_ids
             THEN IF select_full_types THEN Selected(field.type, TRUE)
                  ELSE IF field.type.kind = "struct"
                  THEN (IF child.result = <<>>
                        THEN Selected(StructType(<<>>), FALSE)
                        ELSE Selected(child.result[1], FALSE))
                  ELSE Selected(field.type, TRUE)
             ELSE IF child.result # <<>>
             THEN Selected(child.result[1], FALSE)
             ELSE Dropped
           Visited(child) ==
             IF child.status # OK THEN stop(child.status)
             ELSE IF /\ field.field_id \in selected_ids
                     /\ ~select_full_types
                     /\ field.type.kind # "struct"
                     /\ ~is_primitive(field.type)
             THEN stop(InvalidArgument(
                         "Cannot explicitly project List or Map types",
                         field.field_id))
             ELSE next(Entry(child))
       IN Visited(PruneVisit(field.type, selected_ids, select_full_types))


\* Visit(StructType) that returns the struct itself whenever every field
\* survives, narrowed or not.
VisitStructSameSize(type, selected_ids, select_full_types) ==
  LET fields == type.fields
      Result(selected_types, selected_fields) ==
        IF selected_fields = <<>> THEN Null
        ELSE IF Len(selected_fields) = Len(fields)
        THEN Type(type)
        ELSE Type(StructType(selected_fields))
      Visited(r) ==
        IF r.status # OK THEN Error(r.status)
        ELSE Result(r.selected_types, SelectedFields(fields, r.selected_types, 1))
  IN Visited(PruneStructFields(fields, 1, selected_ids, select_full_types, <<>>))

VisitStruct(type, selected_ids, select_full_types) ==
  LET fields == type.fields
      same_types(selected_types) ==
        \A i \in 1..Len(fields) :
           selected_types[i].original \/ selected_types[i].type = <<>>
      Result(selected_types, selected_fields) ==
        IF selected_fields = <<>> THEN Null
        ELSE IF same_types(selected_types) /\ Len(selected_fields) = Len(fields)
        THEN Type(type)
        ELSE Type(StructType(selected_fields))
      Visited(r) ==
        IF r.status # OK THEN Error(r.status)
        ELSE Result(r.selected_types, SelectedFields(fields, r.selected_types, 1))
  IN Visited(PruneStructFields(fields, 1, selected_ids, select_full_types, <<>>))

VisitList(type, selected_ids, select_full_types) ==
  LET element_field == type.fields[1]
      Visited(child) ==
        IF child.status # OK THEN Error(child.status)
        ELSE IF element_field.field_id \in selected_ids
        THEN IF element_field.type.kind = "struct"
             THEN ProjectList(element_field, child.result)
             ELSE IF ~is_primitive(element_field.type)
             THEN Error(InvalidArgument(
                          "Cannot explicitly project List or Map types",
                          element_field.field_id))
             ELSE Type(ListType(element_field))
        ELSE IF child.result # <<>> THEN ProjectList(element_field, child.result)
        ELSE Null
  IN IF select_full_types /\ element_field.field_id \in selected_ids
     THEN Type(type)
     ELSE Visited(PruneVisit(element_field.type, selected_ids, select_full_types))

VisitMap(type, selected_ids, select_full_types) ==
  LET key_field == type.fields[1]
      value_field == type.fields[2]
      Visited(key, value) ==
        IF key.status # OK THEN Error(key.status)
        ELSE IF value.status # OK THEN Error(value.status)
        ELSE IF value_field.field_id \in selected_ids
        THEN IF value_field.type.kind = "struct"
             THEN ProjectMap(key_field, value_field, value.result)
             ELSE IF ~is_primitive(value_field.type)
             THEN Error(InvalidArgument(
                          "Cannot explicitly project List or Map types",
                          value_field.field_id))
             ELSE Type(type)
        ELSE IF value.result # <<>>
        THEN ProjectMap(key_field, value_field, value.result)
        ELSE IF key_field.field_id \in selected_ids THEN Type(type)
        ELSE Null
  IN IF select_full_types /\ value_field.field_id \in selected_ids
     THEN Type(type)
     ELSE Visited(PruneVisit(key_field.type, selected_ids, select_full_types),
                  PruneVisit(value_field.type, selected_ids, select_full_types))

\* VisitTypeInline dispatch on the type id; Visit(PrimitiveType) leaves the
\* result null.
PruneVisit(type, selected_ids, select_full_types) ==
  CASE type.kind = "struct" -> VisitStruct(type, selected_ids, select_full_types)
    [] type.kind = "list" -> VisitList(type, selected_ids, select_full_types)
    [] type.kind = "map" -> VisitMap(type, selected_ids, select_full_types)
    [] OTHER -> Null

----------------------------------------------------------------------------
(* Schema::select / Schema::project *)

\* What select / project return: a status, the schema (<<>> when an error is
\* returned) and whether the pointer returned is the source object itself.
Returned(c, sch, same_object) ==
  [caches |-> c, status |-> OK, schema |-> <<sch>>, same_object |-> same_object]

Failed(c, status) ==
  [caches |-> c, status |-> status, schema |-> <<>>, same_object |-> FALSE]


\* The tail of internalSelect / project in which the empty schema built for
\* a null visitor result carries no schema id.
ProjectedSchemaEmptyWithoutId(s, c, visited) ==
  IF visited.status # OK THEN Failed(c, visited.status)
  ELSE IF visited.result = <<>> THEN Returned(c, Schema(<<>>, <<>>), FALSE)
  ELSE IF visited.result[1].kind # "struct"
  THEN Failed(c, [OK EXCEPT !.kind = "InvalidSchema",
                            !.what = "Projected type must be a struct type"])
  ELSE Returned(c, Schema(visited.result[1].fields, s.schema_id), FALSE)

\* The tail shared by internalSelect and project, after the visitor has run.
ProjectedSchema(s, c, visited) ==
  IF visited.status # OK THEN Failed(c, visited.status)
  ELSE IF visited.result = <<>> THEN Returned(c, Schema(<<>>, s.schema_id), FALSE)
  ELSE IF visited.result[1].kind # "struct"
  THEN Failed(c, [OK EXCEPT !.kind = "InvalidSchema",
                            !.what = "Projected type must be a struct type"])
  ELSE Returned(c, Schema(visited.result[1].fields, s.schema_id), FALSE)

RECURSIVE ResolveNames(_, _, _, _, _, _)


\* A name loop that takes a lookup that failed for a name that found nothing.
ResolveNamesSkippingErrors(s, c, names, i, case_sensitive, selected_ids) ==
  IF i > Len(names) THEN [caches |-> c, status |-> OK, selected_ids |-> selected_ids]
  ELSE LET Resolved(result) ==
             ResolveNames(s, result.caches, names, i + 1, case_sensitive,
               IF result.status = OK /\ result.value # <<>>
               THEN selected_ids \cup {result.value[1].field_id}
               ELSE selected_ids)
       IN Resolved(FindFieldByName(s, c, names[i], case_sensitive))

\* A name loop that stops at the first name that finds nothing.
ResolveNamesUntilNotFound(s, c, names, i, case_sensitive, selected_ids) ==
  IF i > Len(names) THEN [caches |-> c, status |-> OK, selected_ids |-> selected_ids]
  ELSE LET Resolved(result) ==
             IF result.status # OK \/ result.value = <<>>
             THEN [caches |-> result.caches, status |-> result.status,
                   selected_ids |-> selected_ids]
             ELSE ResolveNames(s, result.caches, names, i + 1, case_sensitive,
                    selected_ids \cup {result.value[1].field_id})
       IN Resolved(FindFieldByName(s, c, names[i], case_sensitive))

\* The name loop of internalSelect: FindFieldByName for each name in order,
\* stopping at the first error; names that find nothing are skipped.
ResolveNames(s, c, names, i, case_sensitive, selected_ids) ==
  IF i > Len(names) THEN [caches |-> c, status |-> OK, selected_ids |-> selected_ids]
  ELSE LET Resolved(result) ==
             IF result.status # OK
             THEN [caches |-> result.caches, status |-> result.status,
                   selected_ids |-> selected_ids]
             ELSE ResolveNames(s, result.caches, names, i + 1, case_sensitive,
                    IF result.value # <<>>
                    THEN selected_ids \cup {result.value[1].field_id}
                    ELSE selected_ids)
       IN Resolved(FindFieldByName(s, c, names[i], case_sensitive))

\* internalSelect that honours the wildcard only when it is the only name.
internalSelectLoneWildcard(s, c, names, case_sensitive) ==
  IF names = <<ALL_COLUMNS>>
  THEN Returned(c, s, TRUE)
  ELSE LET Resolved(r) ==
             IF r.status # OK THEN Failed(r.caches, r.status)
             ELSE ProjectedSchema(s, r.caches,
                    VisitStruct(StructType(s.fields), r.selected_ids, TRUE))
       IN Resolved(ResolveNames(s, c, names, 1, case_sensitive, {}))

internalSelect(s, c, names, case_sensitive) ==
  IF \E i \in 1..Len(names) : names[i] = ALL_COLUMNS
  THEN Returned(c, s, TRUE)
  ELSE LET Resolved(r) ==
             IF r.status # OK THEN Failed(r.caches, r.status)
             ELSE ProjectedSchema(s, r.caches,
                    VisitStruct(StructType(s.fields), r.selected_ids, TRUE))
       IN Resolved(ResolveNames(s, c, names, 1, case_sensitive, {}))

project(s, c, selected_ids) ==
  ProjectedSchema(s, c, VisitStruct(StructType(s.fields), selected_ids, FALSE))

----------------------------------------------------------------------------
(* Schemas the operations are exercised on *)

\* Largest number of fields in the nested closure of a generated schema.
MaxFields == 4

\* Longest name list handed to select.
MaxNames == 2

NameOf(id) ==
  CASE id % 4 = 1 -> <<"a">>
    [] id % 4 = 2 -> <<"B">>
    [] id % 4 = 3 -> <<"c">>
    [] OTHER -> <<"D">>

DocOf(id) == IF id % 2 = 1 THEN <<"doc">> ELSE <<>>

OptionalOf(id) == id % 3 = 0

RECURSIVE GenTypes(_, _)
RECURSIVE GenFields(_, _)

\* Every type whose nested closure has exactly n fields, with field ids
\* first, first + 1, ... in visiting order.
GenTypes(n, first) ==
  IF n = 0 THEN {Primitive}
  ELSE {StructType(fs) : fs \in GenFields(n, first)}
       \cup {ListType(SchemaField(first, kElementName, t, OptionalOf(first),
                                  DocOf(first))) : t \in GenTypes(n - 1, first + 1)}
       \cup UNION {{MapType(SchemaField(first, kKeyName, kt, FALSE, DocOf(first)),
                            SchemaField(first + 1 + j, kValueName, vt,
                                        OptionalOf(first + 1 + j),
                                        DocOf(first + 1 + j))) :
                       kt \in GenTypes(j, first + 1),
                       vt \in GenTypes(n - 2 - j, first + 2 + j)} : j \in 0..(n - 2)}

GenFields(n, first) ==
  IF n = 0 THEN {<<>>}
  ELSE UNION {{<<SchemaField(first, NameOf(first), t, OptionalOf(first),
                             DocOf(first))>> \o rest :
                  t \in GenTypes(k - 1, first + 1),
                  rest \in GenFields(n - k, first + k)} : k \in 1..n}

\* Generated schemas; those with an odd number of fields carry a schema id.
GenSchemas ==
  UNION {{Schema(fs, IF n % 2 = 0 THEN <<>> ELSE <<n>>) : fs \in GenFields(n, 1)} :
           n \in 0..MaxFields}

Field(field_id, name, type) ==
  SchemaField(field_id, name, type, OptionalOf(field_id), DocOf(field_id))

Element(field_id, type) == Field(field_id, kElementName, type)

Key(field_id, type) == SchemaField(field_id, kKeyName, type, FALSE, <<>>)

Value(field_id, type) == Field(field_id, kValueName, type)

\* test/schema_test.cc, DuplicatePathErrorCaseSensitive.
DuplicatePathCaseSensitive ==
  Schema(<<Field(1, <<"a">>, StructType(<<Field(2, <<"b">>, Primitive)>>)),
           Field(3, <<"a", ".", "b">>, Primitive)>>, <<1>>)

\* test/schema_test.cc, DuplicatePathErrorCaseInsensitive.
DuplicatePathCaseInsensitive ==
  Schema(<<Field(1, <<"A">>, StructType(<<Field(2, <<"B">>, Primitive)>>)),
           Field(3, <<"a", ".", "b">>, Primitive)>>, <<1>>)

\* Sibling names that differ only in case.
CaseCollision ==
  Schema(<<Field(1, <<"A">>, Primitive), Field(2, <<"a">>, Primitive)>>, <<1>>)

\* test/schema_test.cc, NestedDuplicateFieldIdError.
NestedDuplicateFieldId ==
  Schema(<<Field(1, <<"a">>, Primitive),
           Field(2, <<"b">>, StructType(<<Field(1, <<"c">>, Primitive)>>))>>, <<1>>)

\* A list element that repeats the id of a later top-level field.
DuplicateIdInList ==
  Schema(<<Field(1, <<"l">>, ListType(Element(2, Primitive))),
           Field(2, <<"b">>, Primitive)>>, <<1>>)

\* A top-level name that equals the short name of a list element's child,
\* declared after and before the list.
ShortNameAfter ==
  Schema(<<Field(1, <<"l">>,
                 ListType(Element(2, StructType(<<Field(3, <<"x">>, Primitive)>>)))),
           Field(4, <<"l", ".", "x">>, Primitive)>>, <<1>>)

ShortNameBefore ==
  Schema(<<Field(4, <<"l", ".", "x">>, Primitive),
           Field(1, <<"l">>,
                 ListType(Element(2, StructType(<<Field(3, <<"x">>, Primitive)>>))))>>,
         <<1>>)

\* A map whose value struct has a child named "key" (as in
\* ComplexMapStructShortNameTest).
MapValueKey ==
  Schema(<<Field(1, <<"m">>,
                 MapType(Key(2, Primitive),
                         Value(3, StructType(<<Field(4, kKeyName, Primitive)>>))))>>,
         <<1>>)

\* Mixed-case struct and primitive columns.
BasicSchema ==
  Schema(<<Field(1, <<"a">>, Primitive),
           Field(2, <<"B">>, StructType(<<Field(3, <<"c">>, Primitive),
                                          Field(4, <<"D">>, Primitive)>>))>>,
         <<100>>)

\* The documented example of Schema::Project: id, user{name, address{street,
\* city}}.
NestedUserSchema ==
  Schema(<<Field(1, <<"a">>, Primitive),
           Field(2, <<"b">>,
                 StructType(<<Field(3, <<"c">>, Primitive),
                              Field(4, <<"d">>,
                                    StructType(<<Field(5, <<"x">>, Primitive),
                                                 Field(6, <<"l">>, Primitive)>>))>>))>>,
         <<300>>)

\* test/schema_test.cc, ComplexMapSchema: struct key and struct value, here
\* with a child of the same name on both sides.
ComplexMapSchema ==
  Schema(<<Field(1, <<"m">>,
                 MapType(Key(2, StructType(<<Field(3, <<"x">>, Primitive)>>)),
                         Value(4, StructType(<<Field(5, <<"x">>, Primitive)>>))))>>,
         <<100>>)

\* test/schema_test.cc, ListOfMapSchema.
ListOfMapSchema ==
  Schema(<<Field(1, <<"l">>,
                 ListType(Element(2,
                   MapType(Key(3, Primitive),
                           Value(4, StructType(<<Field(5, <<"x">>, Primitive),
                                                 Field(6, <<"b">>, Primitive)>>))))))>>,
         <<100>>)

\* A map inside a list element struct; the map value has a child named "key".
ListOfStructWithMap ==
  Schema(<<Field(1, <<"l">>,
                 ListType(Element(2, StructType(<<
                   Field(3, <<"m">>,
                         MapType(Key(4, Primitive),
                                 Value(5, StructType(<<Field(6, kKeyName,
                                                             Primitive)>>))))>>))))>>,
         <<1>>)


\* A map whose key struct has a struct child (ComplexMapSchema with a deeper
\* key).
StructInMapKey ==
  Schema(<<Field(1, <<"m">>,
                 MapType(Key(2, StructType(<<
                           Field(3, <<"c">>,
                                 StructType(<<Field(4, <<"x">>, Primitive)>>))>>)),
                         Value(5, Primitive)))>>,
         <<100>>)


\* test/schema_test.cc, ComplexMapSchema as written there: two children on
\* the key side and two on the value side.
WideMapSchema ==
  Schema(<<Field(1, <<"m">>,
                 MapType(Key(2, StructType(<<Field(3, <<"x">>, Primitive),
                                             Field(4, <<"b">>, Primitive)>>)),
                         Value(5, StructType(<<Field(6, <<"x">>, Primitive),
                                               Field(7, <<"b">>, Primitive)>>))))>>,
         <<100>>)


\* A map, and a list of structs, inside the key struct of a map.
MapInMapKey ==
  Schema(<<Field(1, <<"m">>,
                 MapType(Key(2, StructType(<<
                           Field(3, <<"c">>,
                                 MapType(Key(4, Primitive),
                                         Value(5, StructType(<<
                                           Field(6, <<"x">>, Primitive)>>))))>>)),
                         Value(7, Primitive)))>>,
         <<100>>)

ListInMapKey ==
  Schema(<<Field(1, <<"m">>,
                 MapType(Key(2, StructType(<<
                           Field(3, <<"l">>,
                                 ListType(Element(4, StructType(<<
                                   Field(5, <<"x">>, Primitive)>>))))>>)),
                         Value(6, Primitive)))>>,
         <<100>>)

\* A column of empty struct type.
EmptyStructSchema ==
  Schema(<<Field(1, <<"a">>, StructType(<<>>)), Field(2, <<"b">>, Primitive)>>, <<1>>)

\* A copy of the fields in which the field with id `from` carries id `to`.
RECURSIVE WithId(_, _, _)
WithId(fields, from, to) ==
  [i \in 1..Len(fields) |->
     [fields[i] EXCEPT
        !.field_id = IF @ = from THEN to ELSE @,
        !.type = [@ EXCEPT !.fields = WithId(@, from, to)]]]

\* Generated schemas in which one field repeats the id of an earlier one.
DuplicateIdSchemas ==
  UNION {UNION {{Schema(WithId(s.fields, j, i), s.schema_id) : i \in 1..(j - 1)} :
                  j \in 2..Cardinality(AllFields(s.fields))} :
         s \in GenSchemas}

SmallSchemas ==
  {DuplicatePathCaseSensitive, DuplicatePathCaseInsensitive, CaseCollision,
   NestedDuplicateFieldId, DuplicateIdInList, ShortNameAfter, ShortNameBefore,
   MapValueKey, BasicSchema, EmptyStructSchema}

LargeSchemas ==
  {NestedUserSchema, ComplexMapSchema, ListOfMapSchema, ListOfStructWithMap,
   StructInMapKey}

\* The schemas with structs, lists and maps below a map key.
DeepSchemas == {WideMapSchema, MapInMapKey, ListInMapKey}

\* Dotted strings built from the names along a chain of nested fields, where
\* the hop through a list element, a map key or a map value may be left out.
RECURSIVE CandidatePaths(_, _)
CandidatePaths(type, prefixes) ==
  UNION {LET f == type.fields[i]
             here == {BuildPath(p, f.name, TRUE) : p \in prefixes}
             next == IF type.kind = "struct" THEN here ELSE here \cup prefixes
         IN here \cup CandidatePaths(f.type, next)
         : i \in 1..Len(type.fields)}

ToUpperChar(c) ==
  CASE c = "a" -> "A"
    [] c = "b" -> "B"
    [] c = "c" -> "C"
    [] c = "d" -> "D"
    [] c = "x" -> "X"
    [] c = "l" -> "L"
    [] c = "m" -> "M"
    [] c = "key" -> "KEY"
    [] c = "value" -> "VALUE"
    [] c = "element" -> "ELEMENT"
    [] OTHER -> c

ToUpper(s) == [i \in 1..Len(s) |-> ToUpperChar(s[i])]

Nonexistent == <<"n", "o">>

QueryNames(s) ==
  LET paths == CandidatePaths(StructType(s.fields), {<<>>})
  IN paths \cup {ToLower(p) : p \in paths} \cup {ToUpper(p) : p \in paths}
     \cup {Nonexistent}

QueryIds(s) == 0..(Cardinality(AllFields(s.fields)) + 1)

----------------------------------------------------------------------------
(* State machine *)

\* The caches of the schema under test, as one record.
caches == Caches(id_to_field_, name_to_id_, lowercase_name_to_id_,
                 id_to_field_flag_, name_to_id_flag_, lowercase_name_to_id_flag_)

SetCaches(c) ==
  /\ id_to_field_' = c.id_to_field_
  /\ name_to_id_' = c.name_to_id_
  /\ lowercase_name_to_id_' = c.lowercase_name_to_id_
  /\ id_to_field_flag_' = c.id_to_field_flag_
  /\ name_to_id_flag_' = c.name_to_id_flag_
  /\ lowercase_name_to_id_flag_' = c.lowercase_name_to_id_flag_

\* The last call made on the schema: its arguments and what it returned.
NoCall ==
  [op |-> "none", field_id |-> 0, name |-> <<>>, case_sensitive |-> TRUE,
   names |-> <<>>, selected_ids |-> {},
   status |-> OK, value |-> <<>>, schema |-> <<>>, same_object |-> FALSE]


\* Number of threads that look fields up on the same schema.
NumThreads == 2

Threads == 1..NumThreads

\* A thread inside FindFieldById / FindFieldByName: where it is (`pc`), the
\* call it makes, the cache it is at and what it returns.
NotCalling ==
  [pc |-> "idle", op |-> "none", field_id |-> 0, name |-> <<>>,
   case_sensitive |-> TRUE, cache |-> "none", id |-> 0,
   status |-> OK, value |-> <<>>]

CacheNames == {"id_to_field_", "name_to_id_", "lowercase_name_to_id_"}

\* How many times the Init function of each cache has run.
NoBuilds == [cache \in CacheNames |-> 0]

Constructed(s) ==
  /\ schema = s
  /\ id_to_field_ = EmptyMap
  /\ name_to_id_ = EmptyMap
  /\ lowercase_name_to_id_ = EmptyMap
  /\ id_to_field_flag_ = FALSE
  /\ name_to_id_flag_ = FALSE
  /\ lowercase_name_to_id_flag_ = FALSE
  /\ ret = NoCall
  /\ threads = [t \in Threads |-> NotCalling]
  /\ builds = NoBuilds

CallFindFieldById(field_id) ==
  LET Return(r) ==
        /\ SetCaches(r.caches)
        /\ ret' = [NoCall EXCEPT !.op = "FindFieldById", !.field_id = field_id,
                                 !.status = r.status, !.value = r.value]
        /\ UNCHANGED <<schema, threads, builds>>
  IN Return(FindFieldById(schema, caches, field_id))

CallFindFieldByName(name, case_sensitive) ==
  LET Return(r) ==
        /\ SetCaches(r.caches)
        /\ ret' = [NoCall EXCEPT !.op = "FindFieldByName", !.name = name,
                                 !.case_sensitive = case_sensitive,
                                 !.status = r.status, !.value = r.value]
        /\ UNCHANGED <<schema, threads, builds>>
  IN Return(FindFieldByName(schema, caches, name, case_sensitive))

CallFindFieldByNameDefault(name) ==
  LET Return(r) ==
        /\ SetCaches(r.caches)
        /\ ret' = [NoCall EXCEPT !.op = "FindFieldByNameDefault", !.name = name,
                                 !.status = r.status, !.value = r.value]
        /\ UNCHANGED <<schema, threads, builds>>
  IN Return(FindFieldByNameDefault(schema, caches, name))

CallSelect(names, case_sensitive) ==
  LET Return(r) ==
        /\ SetCaches(r.caches)
        /\ ret' = [NoCall EXCEPT !.op = "select", !.names = names,
                                 !.case_sensitive = case_sensitive,
                                 !.status = r.status, !.schema = r.schema,
                                 !.same_object = r.same_object]
        /\ UNCHANGED <<schema, threads, builds>>
  IN Return(internalSelect(schema, caches, names, case_sensitive))

CallProject(selected_ids) ==
  LET Return(r) ==
        /\ SetCaches(r.caches)
        /\ ret' = [NoCall EXCEPT !.op = "project", !.selected_ids = selected_ids,
                                 !.status = r.status, !.schema = r.schema,
                                 !.same_object = r.same_object]
        /\ UNCHANGED <<schema, threads, builds>>
  IN Return(project(schema, caches, selected_ids))

\* Name lists for select: the candidate paths, the top-level names in upper
\* case, the wildcard and a name no schema has.
SelectNames(s) ==
  LET pool == CandidatePaths(StructType(s.fields), {<<>>})
              \cup {ToUpper(s.fields[i].name) : i \in 1..Len(s.fields)}
              \cup {ALL_COLUMNS, Nonexistent}
  IN UNION {[1..n -> pool] : n \in 0..MaxNames}

\* The smaller argument pools of the long-running specification.
FewNames(s) ==
  LET paths == CandidatePaths(StructType(s.fields), {<<>>})
  IN paths \cup {ToUpper(p) : p \in paths} \cup {Nonexistent}

FewSelectNames(s) ==
  {<<n>> : n \in CandidatePaths(StructType(s.fields), {<<>>})
                 \cup {ALL_COLUMNS, Nonexistent}}
  \cup {<<>>, <<Nonexistent, ALL_COLUMNS>>}

FewIdSets(s) == {{}, AllIds(s)} \cup {{id} : id \in QueryIds(s)}

DoFindFieldById == \E field_id \in QueryIds(schema) : CallFindFieldById(field_id)

DoFindFieldByName ==
  \E name \in QueryNames(schema), case_sensitive \in BOOLEAN :
     CallFindFieldByName(name, case_sensitive)

DoFindFieldByNameDefault ==
  \E name \in QueryNames(schema) : CallFindFieldByNameDefault(name)

DoSelect ==
  \E names \in SelectNames(schema), case_sensitive \in BOOLEAN :
     CallSelect(names, case_sensitive)

DoProject == \E selected_ids \in SUBSET QueryIds(schema) : CallProject(selected_ids)

\* The schemas of the long-running specification: the named ones and the
\* generated ones with fewer than MaxFields fields.
SpecSchemas ==
  SmallSchemas \cup LargeSchemas
  \cup {s \in GenSchemas : Cardinality(AllFields(s.fields)) < MaxFields}

\* Any sequence of calls on one schema.
Init == \E s \in SpecSchemas : Constructed(s)

Next ==
  \/ DoFindFieldById
  \/ \E name \in FewNames(schema), case_sensitive \in BOOLEAN :
        CallFindFieldByName(name, case_sensitive)
  \/ \E names \in FewSelectNames(schema), case_sensitive \in BOOLEAN :
        CallSelect(names, case_sensitive)
  \/ \E selected_ids \in FewIdSets(schema) : CallProject(selected_ids)

Spec == Init /\ [][Next]_vars

\* One lookup on a freshly constructed schema with a repeated field id.
DupInit ==
  \E s \in DuplicateIdSchemas \cup {NestedDuplicateFieldId, DuplicateIdInList} :
     Constructed(s)

DupNext ==
  \/ ret.op = "none" /\ DoFindFieldById
  \/ ret.op = "none" /\ DoFindFieldByName

DupSpec == DupInit /\ [][DupNext]_vars

\* One call, with any argument, on a freshly constructed schema.
FreshInit ==
  \E s \in GenSchemas \cup SmallSchemas \cup LargeSchemas \cup DeepSchemas :
     Constructed(s)

FreshNext ==
  \/ ret.op = "none" /\ DoFindFieldById
  \/ ret.op = "none" /\ DoFindFieldByName
  \/ ret.op = "none" /\ DoFindFieldByNameDefault
  \/ ret.op = "none" /\ DoSelect
  \/ ret.op = "none" /\ DoProject

FreshSpec == FreshInit /\ [][FreshNext]_vars

\* One select or project call, with any argument, on a freshly constructed
\* schema.
PruneNext ==
  \/ ret.op = "none" /\ DoSelect
  \/ ret.op = "none" /\ DoProject

PruneSpec == FreshInit /\ [][PruneNext]_vars


\* The fields of the nested closure in visiting order, each with its
\* canonical path and its short path: a struct child appends its name to
\* both; a list element and a map value of struct type append their name to
\* the canonical path only (`hop`); every other list or map child appends it
\* to both.
RECURSIVE PathEntries(_, _, _, _)

\* Any sequence of select and project calls on one schema.
SelectNext ==
  \/ \E names \in FewSelectNames(schema), case_sensitive \in BOOLEAN :
        CallSelect(names, case_sensitive)
  \/ \E selected_ids \in FewIdSets(schema) : CallProject(selected_ids)

SelectSpec == Init /\ [][SelectNext]_vars

----------------------------------------------------------------------------
(* What the specification says about paths, stated on the tree itself *)

PathEntries(type, path, short, case_sensitive) ==
  LET Entry(i) ==
        LET f == type.fields[i]
            name == IF case_sensitive THEN f.name ELSE ToLower(f.name)
            Join(prefix) == IF prefix = <<>> THEN name ELSE prefix \o Dot \o name
            hop == /\ f.type.kind = "struct"
                   /\ \/ type.kind = "list"
                      \/ type.kind = "map" /\ i = 2
            new_short == IF hop THEN short ELSE Join(short)
        IN <<[field |-> f, path |-> Join(path), short |-> new_short, hop |-> hop]>>
           \o PathEntries(f.type, Join(path), new_short, case_sensitive)
      RECURSIVE Concat(_)
      Concat(i) == IF i > Len(type.fields) THEN <<>> ELSE Entry(i) \o Concat(i + 1)
  IN Concat(1)

Entries(s, case_sensitive) ==
  PathEntries(StructType(s.fields), <<>>, <<>>, case_sensitive)

UniqueIds(s) ==
  LET es == Entries(s, TRUE)
  IN \A i, j \in 1..Len(es) : es[i].field.field_id = es[j].field.field_id => i = j

DuplicatedIds(s) ==
  LET es == Entries(s, TRUE)
  IN {es[i].field.field_id : i \in {k \in 1..Len(es) :
        \E j \in 1..Len(es) : j # k /\ es[j].field.field_id = es[k].field.field_id}}

UniquePaths(s, case_sensitive) ==
  LET es == Entries(s, case_sensitive)
  IN \A i, j \in 1..Len(es) : es[i].path = es[j].path => i = j

OnlyStructsAndPrimitives(s) ==
  \A f \in AllFields(s.fields) : f.type.kind \in {"struct", "primitive"}

\* Two fields with different ids have the same canonical path in the mode.
HasDuplicatePath(s, case_sensitive) ==
  LET es == Entries(s, case_sensitive)
  IN \E i, j \in 1..Len(es) :
        /\ i < j
        /\ es[i].path = es[j].path
        /\ es[i].field.field_id # es[j].field.field_id

\* The string a lookup searches the index of its mode for.
Searched(name, case_sensitive) == IF case_sensitive THEN name ELSE ToLower(name)

\* The positions, in visiting order, of the fields whose canonical path, or
\* whose short path, is the key.
CanonicalOwners(es, key) == {i \in 1..Len(es) : es[i].path = key}

ShortOwners(es, key) == {i \in 1..Len(es) : es[i].short = key}

First(positions) == CHOOSE i \in positions : \A j \in positions : i <= j

\* The field the specification indexes under the key: the field whose
\* canonical path it is, else the first visited field whose short path it
\* is, else none.
IndexedField(s, case_sensitive, key) ==
  LET es == Entries(s, case_sensitive)
  IN IF CanonicalOwners(es, key) # {}
     THEN <<es[First(CanonicalOwners(es, key))].field>>
     ELSE IF ShortOwners(es, key) # {}
     THEN <<es[First(ShortOwners(es, key))].field>>
     ELSE <<>>

IsLookupByName == ret.op \in {"FindFieldByName", "FindFieldByNameDefault"}

----------------------------------------------------------------------------
(* Properties *)

HasWildcard(names) == \E i \in 1..Len(names) : names[i] = ALL_COLUMNS

\* C1: select with a name list that contains "*", alone or with any other
\* names, succeeds and returns a schema equal to the source (same schema_id,
\* same field sequence), whatever the schema.
C1_SelectWildcardIsIdentity ==
  (ret.op = "select" /\ HasWildcard(ret.names))
    => /\ ret.status = OK
       /\ ret.schema # <<>>
       /\ Equals(ret.schema[1], schema)

\* The wildcard together with a name that does not resolve, on a schema whose
\* name index cannot be built.
C1_Witness ==
  /\ ret.op = "select"
  /\ ret.names = <<Nonexistent, ALL_COLUMNS>>
  /\ ~UniquePaths(schema, TRUE)
  /\ ret.status = OK
  /\ ret.schema = <<schema>>

\* C2 as stated: project with all field ids of a schema with unique ids,
\* lists and maps included, succeeds and returns a schema equal to the source.
C2_ProjectAllIsIdentity ==
  (ret.op = "project" /\ UniqueIds(schema) /\ ret.selected_ids = AllIds(schema))
    => /\ ret.status = OK
       /\ ret.schema # <<>>
       /\ Equals(ret.schema[1], schema)

\* C2 amended: project with all field ids of a schema with unique ids that is
\* built of structs and primitives only succeeds and returns a schema equal
\* to the source; on a schema that has a list or a map field it returns
\* InvalidArgument and no schema.
C2_ProjectAllIsIdentityOnStructs ==
  (/\ ret.op = "project"
   /\ UniqueIds(schema)
   /\ ret.selected_ids = AllIds(schema))
    => IF OnlyStructsAndPrimitives(schema)
       THEN /\ ret.status = OK
            /\ ret.schema # <<>>
            /\ Equals(ret.schema[1], schema)
       ELSE /\ ret.status.kind = "InvalidArgument"
            /\ ret.schema = <<>>

\* All ids of a schema with a struct nested in a struct are projected.
C2_Witness ==
  /\ ret.op = "project"
  /\ UniqueIds(schema)
  /\ OnlyStructsAndPrimitives(schema)
  /\ ret.selected_ids = AllIds(schema)
  /\ \E f \in AllFields(schema.fields) :
        /\ f.type.kind = "struct"
        /\ \E i \in 1..Len(f.type.fields) : f.type.fields[i].type.kind = "struct"
  /\ ret.status = OK
  /\ ret.schema = <<schema>>

C4_DuplicatePathAlwaysReported ==
  (ret.op = "FindFieldByName" /\ HasDuplicatePath(schema, ret.case_sensitive))
    => LET es == Entries(schema, ret.case_sensitive)
       IN /\ ret.status.kind = "InvalidSchema"
          /\ ret.status.what = "Duplicate path found"
          /\ ret.value = <<>>
          /\ \E i, j \in 1..Len(es) :
                /\ i < j
                /\ es[i].path = es[j].path
                /\ ret.status.path = es[i].path
                /\ ret.status.prev = es[i].field.field_id
                /\ ret.status.curr = es[j].field.field_id

\* The paths of a field: its canonical path and its short path.  A struct
\* that is a list element or a map value has no short path of its own (the
\* short prefix it hands down is its parent's).
PathsOf(e) == IF e.hop THEN {e.path} ELSE {e.path, e.short}

\* A schema is well formed when its ids are unique and no two fields have
\* paths, canonical or short, that are equal after lowercasing.
WellFormed(s) ==
  LET es == Entries(s, FALSE)
  IN /\ UniqueIds(s)
     /\ \A i, j \in 1..Len(es) : (PathsOf(es[i]) \cap PathsOf(es[j]) # {}) => i = j

AllPaths(s) ==
  LET es == Entries(s, TRUE) IN UNION {PathsOf(es[i]) : i \in 1..Len(es)}

\* The fields with a path that differs from q only in letter case; none when
\* q is itself a path of the schema.
FieldsUpToCase(s, q) ==
  LET es == Entries(s, TRUE)
  IN IF q \in AllPaths(s) THEN {}
     ELSE {es[i].field : i \in {k \in 1..Len(es) :
             \E p \in PathsOf(es[k]) : ToLower(p) = ToLower(q)}}

\* C5: on a well-formed schema, for a query that differs from a path of field
\* f only in letter case, FindFieldByName with case_sensitive = true, or with
\* the flag omitted, succeeds with no field, and FindFieldByName with
\* case_sensitive = false returns f.
C5_CaseSensitivity ==
  (/\ IsLookupByName
   /\ WellFormed(schema)
   /\ FieldsUpToCase(schema, ret.name) # {})
    => /\ ret.status = OK
       /\ IF ret.case_sensitive THEN ret.value = <<>>
          ELSE /\ ret.value # <<>>
               /\ FieldsUpToCase(schema, ret.name) = {ret.value[1]}

\* An upper-case spelling of the short name of a list element's child is
\* found only when case is ignored.
C5_Witness ==
  /\ ret.op = "FindFieldByName"
  /\ ~ret.case_sensitive
  /\ WellFormed(schema)
  /\ \E f \in FieldsUpToCase(schema, ret.name) :
        /\ ret.value = <<f>>
        /\ \E i \in 1..Len(Entries(schema, TRUE)) :
              /\ Entries(schema, TRUE)[i].field = f
              /\ ~Entries(schema, TRUE)[i].hop
              /\ Entries(schema, TRUE)[i].short # Entries(schema, TRUE)[i].path
              /\ ToLower(Entries(schema, TRUE)[i].short) = ToLower(ret.name)

\* The fields below a list element or a map value of struct type: their
\* short path leaves out a hop of their canonical path.
HasShortName(e) == ~e.hop /\ e.short # e.path

\* C6 as stated: for a field x below a struct that is a list element or a map
\* value, provided no canonical path equals the short path of x, looking up
\* the short path and looking up the canonical path both return x, at any
\* depth and in both case modes.
C6_ShortNameResolvesAsCanonical ==
  (/\ ret.op = "FindFieldByName"
   /\ UniqueIds(schema)
   /\ UniquePaths(schema, ret.case_sensitive))
    => LET es == Entries(schema, ret.case_sensitive)
           key == Searched(ret.name, ret.case_sensitive)
       IN \A i \in 1..Len(es) :
             (/\ HasShortName(es[i])
              /\ CanonicalOwners(es, es[i].short) = {}
              /\ key \in {es[i].path, es[i].short})
               => /\ ret.status = OK
                  /\ ret.value = <<es[i].field>>

\* C6 amended: the same, provided also that no field visited earlier has the
\* same short path.
C6_FirstShortNameResolvesAsCanonical ==
  (/\ ret.op = "FindFieldByName"
   /\ UniqueIds(schema)
   /\ UniquePaths(schema, ret.case_sensitive))
    => LET es == Entries(schema, ret.case_sensitive)
           key == Searched(ret.name, ret.case_sensitive)
       IN \A i \in 1..Len(es) :
             (/\ HasShortName(es[i])
              /\ CanonicalOwners(es, es[i].short) = {}
              /\ \A j \in 1..(i - 1) : es[j].short # es[i].short
              /\ key \in {es[i].path, es[i].short})
               => /\ ret.status = OK
                  /\ ret.value = <<es[i].field>>

\* A child of a map value that is nested in a list is found by its short
\* path, spelled in another case, when case is ignored.
C6_Witness ==
  /\ ret.op = "FindFieldByName"
  /\ ~ret.case_sensitive
  /\ UniqueIds(schema)
  /\ UniquePaths(schema, FALSE)
  /\ LET es == Entries(schema, FALSE)
     IN \E i \in 1..Len(es) :
           /\ HasShortName(es[i])
           /\ CanonicalOwners(es, es[i].short) = {}
           /\ \A j \in 1..(i - 1) : es[j].short # es[i].short
           /\ ToLower(ret.name) = es[i].short
           /\ ret.name # es[i].short
           /\ \E k, l \in 1..Len(es[i].path) :
                 es[i].path[k] = "element" /\ es[i].path[l] = "value"
           /\ ret.value = <<es[i].field>>

\* C7: on a schema with unique ids and unique canonical paths, a string that
\* is the canonical path of field f and the short path of another field g
\* resolves to f without error, whichever of f and g is visited first.
C7_CanonicalPathWins ==
  (/\ ret.op = "FindFieldByName"
   /\ UniqueIds(schema)
   /\ UniquePaths(schema, ret.case_sensitive))
    => LET es == Entries(schema, ret.case_sensitive)
           key == Searched(ret.name, ret.case_sensitive)
       IN \A f, g \in 1..Len(es) :
             (/\ f # g
              /\ es[f].path = key
              /\ HasShortName(es[g])
              /\ es[g].short = key)
               => /\ ret.status = OK
                  /\ ret.value = <<es[f].field>>

\* The field with the short path is visited before the field with the
\* canonical path.
C7_Witness ==
  /\ ret.op = "FindFieldByName"
  /\ UniqueIds(schema)
  /\ UniquePaths(schema, ret.case_sensitive)
  /\ LET es == Entries(schema, ret.case_sensitive)
         key == Searched(ret.name, ret.case_sensitive)
     IN \E f, g \in 1..Len(es) :
           /\ g < f
           /\ es[f].path = key
           /\ HasShortName(es[g])
           /\ es[g].short = key
           /\ ret.value = <<es[f].field>>

\* C8: on a schema with unique ids, FindFieldById(id) succeeds; it returns
\* the field of the nested closure (top-level, struct child, list element, map
\* key or map value, at any depth) whose id is id, and no field when there is
\* none.
C8_FindFieldByIdExact ==
  (ret.op = "FindFieldById" /\ UniqueIds(schema))
    => LET fs == {f \in AllFields(schema.fields) : f.field_id = ret.field_id}
       IN /\ ret.status = OK
          /\ IF fs = {} THEN ret.value = <<>>
             ELSE ret.value # <<>> /\ fs = {ret.value[1]}

\* A map value found below a list element, after other calls on the schema.
C8_Witness ==
  /\ ret.op = "FindFieldById"
  /\ UniqueIds(schema)
  /\ name_to_id_flag_
  /\ ret.value # <<>>
  /\ ret.value[1].name = kValueName
  /\ ret.value[1].field_id = ret.field_id
  /\ \E i \in 1..Len(schema.fields) :
        /\ schema.fields[i].type.kind = "list"
        /\ ret.value[1] \in AllFields(schema.fields[i].type.fields[1].type.fields)

\* C9: on a schema with unique ids and unique canonical paths,
\* FindFieldByName(name, true) succeeds; it returns a field exactly when name
\* is the canonical path or a short path of a field, namely the field whose id
\* is indexed under that path, and no field for any other string.
C9_FindFieldByNameExact ==
  (/\ ret.op = "FindFieldByName"
   /\ ret.case_sensitive
   /\ UniqueIds(schema)
   /\ UniquePaths(schema, TRUE))
    => /\ ret.status = OK
       /\ ret.value = IndexedField(schema, TRUE, ret.name)

\* The name "m.x" on a map with a struct key and a struct value that both
\* have a child x: the value's child is returned.
C9_Witness ==
  /\ ret.op = "FindFieldByName"
  /\ ret.case_sensitive
  /\ schema = ComplexMapSchema
  /\ ret.name = <<"m", ".", "x">>
  /\ ret.value # <<>>
  /\ ret.value[1].field_id = 5

\* The names of a list that resolve to a field of the schema in the mode.
Resolvable(s, names, case_sensitive) ==
  LET Resolves(n) ==
        IndexedField(s, case_sensitive, Searched(n, case_sensitive)) # <<>>
  IN SelectSeq(names, Resolves)

\* C10: on a schema with unique canonical paths, a select whose name list has
\* names that resolve to no field (a name in the wrong case under
\* case_sensitive = true included) returns what select returns for the list
\* without those names; when no name resolves it succeeds with a schema of
\* zero fields.
C10_SelectSkipsUnresolvedNames ==
  (/\ ret.op = "select"
   /\ ~HasWildcard(ret.names)
   /\ UniquePaths(schema, ret.case_sensitive)
   /\ Resolvable(schema, ret.names, ret.case_sensitive) # ret.names)
    => LET rest == Resolvable(schema, ret.names, ret.case_sensitive)
           expected == internalSelect(schema, NewCaches, rest, ret.case_sensitive)
       IN /\ ret.status = expected.status
          /\ ret.schema = expected.schema
          /\ rest = <<>> => /\ ret.status = OK
                            /\ ret.schema = <<Schema(<<>>, schema.schema_id)>>

\* A name in the wrong case is skipped and the name after it is selected.
C10_Witness ==
  /\ ret.op = "select"
  /\ ret.case_sensitive
  /\ UniqueIds(schema)
  /\ UniquePaths(schema, TRUE)
  /\ Len(ret.names) = 2
  /\ IndexedField(schema, TRUE, ret.names[1]) = <<>>
  /\ IndexedField(schema, FALSE, ToLower(ret.names[1])) # <<>>
  /\ IndexedField(schema, TRUE, ret.names[2]) # <<>>
  /\ ret.status = OK
  /\ ret.schema # <<>>
  /\ Len(ret.schema[1].fields) = 1

IsSelectOrProject == ret.op \in {"select", "project"}

\* C11: every schema that select or project returns successfully has the
\* schema_id of the source, absent when the source's is absent: for the
\* wildcard, for a projection with fields and for the empty projection of a
\* null visitor result.
C11_SchemaIdInherited ==
  (IsSelectOrProject /\ ret.status = OK)
    => /\ ret.schema # <<>>
       /\ ret.schema[1].schema_id = schema.schema_id

\* A projection that selects nothing, from a schema that has fields and a
\* schema id, returns the empty schema.
C11_Witness ==
  /\ ret.op = "project"
  /\ ret.status = OK
  /\ schema.fields # <<>>
  /\ schema.schema_id # <<>>
  /\ ret.schema # <<>>
  /\ ret.schema[1].fields = <<>>

\* The struct, list and map fields that the names of the last select
\* resolve to.
ResolvedNestedFields ==
  {f \in AllFields(schema.fields) :
     /\ ~is_primitive(f.type)
     /\ \E i \in 1..Len(ret.names) :
           FindFieldByName(schema, NewCaches, ret.names[i],
                           ret.case_sensitive).value = <<f>>}

\* The schema returned has the field, with its complete original type.
ReturnedWhole(f) ==
  /\ ret.schema # <<>>
  /\ \E g \in AllFields(ret.schema[1].fields) :
        g.field_id = f.field_id /\ g.type = f.type

\* C12: in a select, a name that resolves to a struct, list or map field f
\* puts f into the result with f's complete original type, whether or not a
\* name of a descendant of f is in the list too.
C12_SelectKeepsWholeField ==
  (ret.op = "select" /\ UniqueIds(schema))
    => \A f \in ResolvedNestedFields : ret.status = OK /\ ReturnedWhole(f)

\* The ids of the fields that are children of a struct (top-level columns
\* included), as opposed to list elements, map keys and map values.
RECURSIVE StructChildIds(_)
StructChildIds(type) ==
  UNION {(IF type.kind = "struct" THEN {type.fields[i].field_id} ELSE {})
         \cup StructChildIds(type.fields[i].type) : i \in 1..Len(type.fields)}

\* The struct-typed fields whose id is in the id set of the last project
\* while no id of a descendant is.
SelectedAlone ==
  {f \in AllFields(schema.fields) :
     /\ f.type.kind = "struct"
     /\ f.field_id \in ret.selected_ids
     /\ \A g \in AllFields(f.type.fields) : g.field_id \notin ret.selected_ids}

\* The schema returned has the field, with an empty struct type.
ReturnedEmpty(f) ==
  /\ ret.schema # <<>>
  /\ \E g \in AllFields(ret.schema[1].fields) :
        /\ g.field_id = f.field_id
        /\ g.name = f.name
        /\ g.optional = f.optional
        /\ g.type = StructType(<<>>)

\* C13: a project that succeeds, with the id of a struct-typed field
\* selected and no id of any of its descendants, returns that field (same
\* id, name, optionality) with an empty struct type.
C13_ProjectStructAloneIsEmptyStruct ==
  (ret.op = "project" /\ ret.status = OK /\ UniqueIds(schema))
    => \A f \in SelectedAlone : ReturnedEmpty(f)

\* The fields that the specification's rule for project keeps, on a tree of
\* structs and primitives: a primitive iff its id is selected, a struct iff
\* its id is selected or one of its children is kept, with the kept children
\* as its type.
RECURSIVE Surviving(_, _)
Surviving(fields, selected_ids) ==
  IF fields = <<>> THEN <<>>
  ELSE LET f == Head(fields)
           rest == Surviving(Tail(fields), selected_ids)
           children == Surviving(f.type.fields, selected_ids)
       IN IF f.type.kind = "struct"
          THEN IF f.field_id \in selected_ids \/ children # <<>>
               THEN <<[f EXCEPT !.type = StructType(children)]>> \o rest
               ELSE rest
          ELSE IF f.field_id \in selected_ids THEN <<f>> \o rest
          ELSE rest

\* C14: a project over a schema built only of structs and primitives, with
\* any id set, succeeds and returns exactly the surviving fields: a primitive
\* iff its id is selected, a struct iff its id is selected or a descendant
\* survives, each surviving struct holding exactly its surviving children.
C14_ProjectStructsAndPrimitives ==
  (ret.op = "project" /\ OnlyStructsAndPrimitives(schema))
    => /\ ret.status = OK
       /\ ret.schema =
            <<Schema(Surviving(schema.fields, ret.selected_ids), schema.schema_id)>>

\* Project({1, 2, 5}) on {1, 2{3, 4{5, 6}}} returns {1, 2{4{5}}}.
C14_Witness ==
  /\ ret.op = "project"
  /\ schema = NestedUserSchema
  /\ ret.selected_ids = {1, 2, 5}
  /\ ret.status = OK
  /\ ret.schema # <<>>
  /\ LET user == NestedUserSchema.fields[2]
         address == user.type.fields[2]
         street == address.type.fields[1]
     IN ret.schema[1].fields =
          <<NestedUserSchema.fields[1],
            [user EXCEPT !.type = StructType(<<
               [address EXCEPT !.type = StructType(<<street>>)]>>)]>>

\* The map types of the schema.
MapTypes == {f.type : f \in {g \in AllFields(schema.fields) : g.type.kind = "map"}}

\* The id set selects the map's key field and nothing of its value side.
KeyWithoutValue(map, selected_ids) ==
  /\ map.fields[1].field_id \in selected_ids
  /\ map.fields[2].field_id \notin selected_ids
  /\ \A g \in AllFields(map.fields[2].type.fields) : g.field_id \notin selected_ids

\* C15: a project whose id set has a map's key field id, but neither the
\* map's value field id nor the id of a descendant of the value, returns an
\* InvalidArgument error and no schema.
C15_ProjectKeyWithoutValueFails ==
  (/\ ret.op = "project"
   /\ UniqueIds(schema)
   /\ \E map \in MapTypes : KeyWithoutValue(map, ret.selected_ids))
    => /\ ret.status.kind = "InvalidArgument"
       /\ ret.schema = <<>>

\* The list-typed and map-typed fields that are children of a struct and
\* whose id is in the id set of the last project.
SelectedListsAndMaps ==
  {f \in AllFields(schema.fields) :
     /\ f.type.kind \in {"list", "map"}
     /\ f.field_id \in StructChildIds(StructType(schema.fields))
     /\ f.field_id \in ret.selected_ids}

ResolvedIds ==
  {f.field_id : f \in {g \in AllFields(schema.fields) :
     \E i \in 1..Len(ret.names) :
        FindFieldByName(schema, NewCaches, ret.names[i],
                        ret.case_sensitive).value = <<g>>}}

\* The schema returned has a field of this type.
ReturnedType(type) ==
  /\ ret.status = OK
  /\ ret.schema # <<>>
  /\ \E g \in AllFields(ret.schema[1].fields) : g.type = type

\* C17: a select whose names resolve to exactly one of a map's key field and
\* value field, and to nothing else, does not return the whole map: a map
\* with one side only is an InvalidArgument error, and the whole map is kept
\* only when both the key id and the value id are selected.
C17_SelectOneSideOfMapNotWhole ==
  (ret.op = "select" /\ ~HasWildcard(ret.names) /\ UniqueIds(schema))
    => \A map \in MapTypes :
          (\/ ResolvedIds = {map.fields[1].field_id}
           \/ ResolvedIds = {map.fields[2].field_id})
            => ~ReturnedType(map)

\* What a lookup hands back to its caller.
Answer(r) == <<r.status, r.value>>

\* Every lookup on the schema, made now, returns what it returns on the
\* schema as constructed.
LookupsAsConstructed ==
  /\ \A field_id \in QueryIds(schema) :
        Answer(FindFieldById(schema, caches, field_id))
          = Answer(FindFieldById(schema, NewCaches, field_id))
  /\ \A name \in FewNames(schema), case_sensitive \in BOOLEAN :
        Answer(FindFieldByName(schema, caches, name, case_sensitive))
          = Answer(FindFieldByName(schema, NewCaches, name, case_sensitive))

\* C18: over any sequence of select and project calls on a schema, failing
\* ones included, the schema's schema_id and field tree never change and
\* every FindFieldById / FindFieldByName call returns what it would have
\* returned before those calls.
C18_SelectAndProjectLeaveSourceAlone ==
  /\ [][schema' = schema]_vars
  /\ [](LookupsAsConstructed)

\* C19: every successful select or project, the select with the wildcard
\* included, returns a Schema object other than the source, so that the
\* caches of the result and of the source are separate and building one
\* never changes the other.
C19_ResultIsDistinctObject ==
  (IsSelectOrProject /\ ret.status = OK) => ~ret.same_object

----------------------------------------------------------------------------
(* Concurrent lookups on one schema *)

FlagOf(cache) ==
  CASE cache = "id_to_field_" -> "id_to_field_flag_"
    [] cache = "name_to_id_" -> "name_to_id_flag_"
    [] OTHER -> "lowercase_name_to_id_flag_"

\* The Init function that the guard of the cache runs.
InitOf(cache, s, c) ==
  CASE cache = "id_to_field_" -> InitIdToFieldMap(s, c)
    [] cache = "name_to_id_" -> InitNameToIdMap(s, c)
    [] OTHER -> InitLowerCaseNameToIdMap(s, c)

\* The calls a thread may make: an id that is there and one that is not, a
\* column name in upper case and a name no schema has, in both modes.
ThreadCalls(s) ==
  {[NotCalling EXCEPT !.pc = "once", !.op = "FindFieldById",
                      !.field_id = field_id, !.id = field_id,
                      !.cache = "id_to_field_"] : field_id \in {0, 1}}
  \cup {[NotCalling EXCEPT !.pc = "once", !.op = "FindFieldByName",
                           !.name = name, !.case_sensitive = case_sensitive,
                           !.cache = IF case_sensitive THEN "name_to_id_"
                                     ELSE "lowercase_name_to_id_"] :
          name \in {ToUpper(s.fields[1].name), Nonexistent},
          case_sensitive \in BOOLEAN}

\* A thread enters FindFieldById or FindFieldByName and reaches the guard of
\* the first cache it needs.
ThreadCall(t) ==
  /\ threads[t].pc = "idle"
  /\ \E call \in ThreadCalls(schema) : threads' = [threads EXCEPT ![t] = call]
  /\ UNCHANGED <<schema, id_to_field_, name_to_id_, lowercase_name_to_id_,
                 id_to_field_flag_, name_to_id_flag_,
                 lowercase_name_to_id_flag_, ret, builds>>

\* Another thread is inside the guard of the cache.
InProgress(t, cache) ==
  \E u \in Threads \ {t} :
     threads[u].pc \in {"init", "publish"} /\ threads[u].cache = cache

\* LazyInitWithCallOnce, entry: a set flag lets the thread through; with
\* the flag unset one thread runs the Init function and the others wait
\* until it has finished.
ThreadOnce(t) ==
  /\ threads[t].pc = "once"
  /\ IF caches[FlagOf(threads[t].cache)]
     THEN threads' = [threads EXCEPT ![t].pc = "find"]
     ELSE /\ ~InProgress(t, threads[t].cache)
          /\ threads' = [threads EXCEPT ![t].pc = "init"]
  /\ UNCHANGED <<schema, id_to_field_, name_to_id_, lowercase_name_to_id_,
                 id_to_field_flag_, name_to_id_flag_,
                 lowercase_name_to_id_flag_, ret, builds>>

\* The Init function of the cache runs and fills the member map.
ThreadInit(t) ==
  LET Built(r) ==
        /\ SetCaches(r.caches)
        /\ threads' = [threads EXCEPT ![t].pc = "publish", ![t].status = r.status]
  IN /\ threads[t].pc = "init"
     /\ Built(InitOf(threads[t].cache, schema, caches))
     /\ builds' = [builds EXCEPT ![threads[t].cache] = @ + 1]
     /\ UNCHANGED <<schema, ret>>

\* LazyInitWithCallOnce, exit: the flag is set and the status of the Init
\* function goes to the caller, which returns it when it is an error.
ThreadPublish(t) ==
  /\ threads[t].pc = "publish"
  /\ SetCaches([caches EXCEPT ![FlagOf(threads[t].cache)] = TRUE])
  /\ threads' = [threads EXCEPT
                   ![t].pc = IF threads[t].status = OK THEN "find" ELSE "return"]
  /\ UNCHANGED <<schema, ret, builds>>

\* A find on a name index that hands the id to a find on id_to_field_
\* without passing its guard.
ThreadFindUnguarded(t) ==
  LET me == threads[t]
      key == IF me.cache = "name_to_id_" THEN me.name ELSE ToLower(me.name)
  IN /\ me.pc = "find"
     /\ threads' =
          [threads EXCEPT ![t] =
             IF me.cache = "id_to_field_"
             THEN [me EXCEPT !.pc = "return",
                             !.value = IF me.id \in DOMAIN id_to_field_
                                       THEN <<id_to_field_[me.id]>> ELSE <<>>]
             ELSE IF key \notin DOMAIN caches[me.cache]
             THEN [me EXCEPT !.pc = "return"]
             ELSE [me EXCEPT !.pc = "find", !.cache = "id_to_field_",
                             !.id = caches[me.cache][key]]]
     /\ UNCHANGED <<schema, id_to_field_, name_to_id_, lowercase_name_to_id_,
                    id_to_field_flag_, name_to_id_flag_,
                    lowercase_name_to_id_flag_, ret, builds>>

\* The find on the cache after its guard: FindFieldById returns the entry or
\* nullopt; FindFieldByName returns nullopt or calls FindFieldById with the
\* id found, which starts at the guard of id_to_field_.
ThreadFind(t) ==
  LET me == threads[t]
      key == IF me.cache = "name_to_id_" THEN me.name ELSE ToLower(me.name)
  IN /\ me.pc = "find"
     /\ threads' =
          [threads EXCEPT ![t] =
             IF me.cache = "id_to_field_"
             THEN [me EXCEPT !.pc = "return",
                             !.value = IF me.id \in DOMAIN id_to_field_
                                       THEN <<id_to_field_[me.id]>> ELSE <<>>]
             ELSE IF key \notin DOMAIN caches[me.cache]
             THEN [me EXCEPT !.pc = "return"]
             ELSE [me EXCEPT !.pc = "once", !.cache = "id_to_field_",
                             !.id = caches[me.cache][key]]]
     /\ UNCHANGED <<schema, id_to_field_, name_to_id_, lowercase_name_to_id_,
                    id_to_field_flag_, name_to_id_flag_,
                    lowercase_name_to_id_flag_, ret, builds>>

\* Threads that call FindFieldById / FindFieldByName, once each, on one
\* well-formed schema whose caches are unbuilt.
ThreadSchemas == {s \in SmallSchemas \cup LargeSchemas : WellFormed(s)}

ThreadInitial == \E s \in ThreadSchemas : Constructed(s)

ThreadNext ==
  \E t \in Threads :
     \/ ThreadCall(t)
     \/ ThreadOnce(t)
     \/ ThreadInit(t)
     \/ ThreadPublish(t)
     \/ ThreadFind(t)

ThreadSpec == ThreadInitial /\ [][ThreadNext]_vars

\* What the call of the thread returns when it is the only call made on
\* the schema.
Sequential(me) ==
  IF me.op = "FindFieldById"
  THEN Answer(FindFieldById(schema, NewCaches, me.field_id))
  ELSE Answer(FindFieldByName(schema, NewCaches, me.name, me.case_sensitive))

\* C20: with several threads in FindFieldById / FindFieldByName on one
\* well-formed schema whose caches start unbuilt, the Init function of each
\* cache runs at most once, and exactly once for a cache whose flag is set;
\* no thread searches a cache while its Init function is running or its flag
\* is not yet set; every thread returns what a sequential call returns.
C20_ConcurrentLookups ==
  /\ \A cache \in CacheNames :
        /\ builds[cache] <= 1
        /\ caches[FlagOf(cache)] => builds[cache] = 1
  /\ \A t \in Threads :
        threads[t].pc = "find"
          => /\ caches[FlagOf(threads[t].cache)]
             /\ ~InProgress(t, threads[t].cache)
  /\ \A t \in Threads :
        threads[t].pc = "return"
          => <<threads[t].status, threads[t].value>> = Sequential(threads[t])

\* One thread runs InitIdToFieldMap while another waits at the guard of the
\* same cache, having come through a name index.
C20_Witness ==
  \E t, u \in Threads :
     /\ t # u
     /\ threads[t].pc = "init"
     /\ threads[t].cache = "id_to_field_"
     /\ threads[u].pc = "once"
     /\ threads[u].cache = "id_to_field_"
     /\ threads[u].op = "FindFieldByName"

----------------------------------------------------------------------------
(* Failed builds, frames and algebra *)

\* C21: once the build of a cache has failed, no later lookup takes the
\* entries inserted before the failure for a completed cache: on a schema
\* with a repeated field id no FindFieldById call, and on a schema with a
\* repeated canonical path no FindFieldByName call in that mode, returns a
\* successful result (a field or not-found).
C21_NoResultFromPartialCache ==
  /\ (ret.op = "FindFieldById" /\ ~UniqueIds(schema)) => ret.status # OK
  /\ (IsLookupByName /\ HasDuplicatePath(schema, ret.case_sensitive))
       => ret.status # OK

\* C22: select and project have no partial success.  When the visitor
\* reports an error at any node of the tree the project returns an error and
\* no schema; when the lookup of any name of a select fails the select
\* returns an error and no schema; in every other case the call returns a
\* schema.
C22_NoPartialSuccess ==
  IsSelectOrProject
    => /\ ret.status = OK <=> ret.schema # <<>>
       /\ ret.op = "project"
            => \A g \in AllFields(schema.fields) :
                  PruneVisit(g.type, ret.selected_ids, FALSE).status # OK
                    => ret.status.kind = "InvalidArgument" /\ ret.schema = <<>>
       /\ (ret.op = "select" /\ ~HasWildcard(ret.names))
            => \A i \in 1..Len(ret.names) :
                  FindFieldByName(schema, NewCaches, ret.names[i],
                                  ret.case_sensitive).status # OK
                    => ret.status.kind = "InvalidSchema" /\ ret.schema = <<>>

\* A select of two names on a schema with a repeated id: the second name
\* finds nothing, the first one resolves and its lookup fails.
C22_Witness ==
  /\ ret.op = "select"
  /\ ~UniqueIds(schema)
  /\ UniquePaths(schema, ret.case_sensitive)
  /\ Len(ret.names) = 2
  /\ IndexedField(schema, ret.case_sensitive,
                  Searched(ret.names[1], ret.case_sensitive)) # <<>>
  /\ ret.names[2] = Nonexistent
  /\ ret.status.kind = "InvalidSchema"
  /\ ret.schema = <<>>

\* C23: a project whose ids are a child k of a map's struct key and a child
\* v of the map's struct value succeeds and returns the map with the key
\* struct narrowed to k and the value struct narrowed to v, the key field and
\* the value field keeping their id, name and optionality.
C23_ProjectNarrowsKeyAndValue ==
  (ret.op = "project" /\ UniqueIds(schema))
    => \A map \in MapTypes :
          \A i \in 1..Len(map.fields[1].type.fields),
             j \in 1..Len(map.fields[2].type.fields) :
             (/\ map.fields[1].type.kind = "struct"
              /\ map.fields[2].type.kind = "struct"
              /\ ret.selected_ids = {map.fields[1].type.fields[i].field_id,
                                     map.fields[2].type.fields[j].field_id})
               => /\ ret.status = OK
                  /\ ret.schema # <<>>
                  /\ \E g \in AllFields(ret.schema[1].fields) :
                        /\ g.type.kind = "map"
                        /\ \A side \in 1..2 :
                              /\ g.type.fields[side].field_id = map.fields[side].field_id
                              /\ g.type.fields[side].name = map.fields[side].name
                              /\ g.type.fields[side].optional = map.fields[side].optional
                        /\ g.type.fields[1].type =
                             StructType(<<map.fields[1].type.fields[i]>>)
                        /\ g.type.fields[2].type =
                             StructType(<<map.fields[2].type.fields[j]>>)

\* C24: a project whose ids are only descendants of a map's struct value
\* (the key is primitive; neither the key id nor the value id is selected)
\* succeeds and returns the map with its key field whole and its value
\* struct restricted to the selected fields, also when the map is the
\* element of a list.
C24_ProjectValueChildrenOnly ==
  (ret.op = "project" /\ UniqueIds(schema))
    => \A map \in MapTypes :
          (/\ is_primitive(map.fields[1].type)
           /\ map.fields[2].type.kind = "struct"
           /\ \A f \in AllFields(map.fields[2].type.fields) :
                 f.type.kind \in {"struct", "primitive"}
           /\ ret.selected_ids # {}
           /\ ret.selected_ids \subseteq
                {f.field_id : f \in AllFields(map.fields[2].type.fields)})
            => /\ ret.status = OK
               /\ ret.schema # <<>>
               /\ \E g \in AllFields(ret.schema[1].fields) :
                     /\ g.type.kind = "map"
                     /\ g.type.fields[1] = map.fields[1]
                     /\ g.type.fields[2].field_id = map.fields[2].field_id
                     /\ g.type.fields[2].name = map.fields[2].name
                     /\ g.type.fields[2].optional = map.fields[2].optional
                     /\ g.type.fields[2].type =
                          StructType(Surviving(map.fields[2].type.fields,
                                               ret.selected_ids))

\* C25: in a project, a list whose element is a struct, with some
\* descendants of the element selected (structs and primitives only, and no
\* other id), is returned rebuilt around the narrowed element struct, the
\* element keeping its field id and optionality; when the call succeeds with
\* neither the element id nor a descendant of the element selected, the
\* result has no field with the id of the list field.
C25_ProjectListOfStruct ==
  (ret.op = "project" /\ UniqueIds(schema))
    => \A l \in {g \in AllFields(schema.fields) : g.type.kind = "list"} :
          LET element == l.type.fields[1]
              below == AllFields(element.type.fields)
          IN element.type.kind = "struct"
               => /\ (/\ \A f \in below : f.type.kind \in {"struct", "primitive"}
                      /\ ret.selected_ids # {}
                      /\ ret.selected_ids \subseteq {f.field_id : f \in below})
                       => /\ ret.status = OK
                          /\ ret.schema # <<>>
                          /\ \E g \in AllFields(ret.schema[1].fields) :
                                g.type =
                                  ListTypeOf(element.field_id,
                                             StructType(Surviving(element.type.fields,
                                                                  ret.selected_ids)),
                                             element.optional)
                  /\ (/\ ret.status = OK
                      /\ ret.schema # <<>>
                      /\ ret.selected_ids \cap
                           ({element.field_id} \cup {f.field_id : f \in below}) = {})
                       => \A g \in AllFields(ret.schema[1].fields) :
                             g.field_id # l.field_id

\* The child fields of the struct key of a map field, and the child fields of
\* the struct element of a list field (none when the key, or the element, is
\* not a struct).
KeyChildren(f) ==
  IF f.type.kind = "map" /\ f.type.fields[1].type.kind = "struct"
  THEN {f.type.fields[1].type.fields[i] :
          i \in 1..Len(f.type.fields[1].type.fields)}
  ELSE {}

ElementChildren(f) ==
  IF f.type.kind = "list" /\ f.type.fields[1].type.kind = "struct"
  THEN {f.type.fields[1].type.fields[i] :
          i \in 1..Len(f.type.fields[1].type.fields)}
  ELSE {}

\* The path of a child of the field at path `path`, through the hops `hops`.
ChildPath(path, hops, child, case_sensitive) ==
  path \o hops \o Dot \o Searched(child.name, case_sensitive)

\* C26 as stated: for a map field m whose key is a struct with child x,
\* "m.key.x" resolves to x and "m.x" never resolves to x: it is not found
\* when the value is not a struct and resolves to the value's child x when
\* the value is a struct with a child x; the children of a struct list
\* element are always found without the "element" hop.
C26_KeyNeverShortens ==
  (/\ ret.op = "FindFieldByName"
   /\ UniqueIds(schema)
   /\ UniquePaths(schema, ret.case_sensitive))
    => LET cs == ret.case_sensitive
           es == Entries(schema, cs)
           key == Searched(ret.name, cs)
       IN \A m \in 1..Len(es) :
             /\ \A x \in KeyChildren(es[m].field) :
                   LET value == es[m].field.type.fields[2]
                   IN /\ key = ChildPath(es[m].path, Dot \o kKeyName, x, cs)
                         => ret.status = OK /\ ret.value = <<x>>
                      /\ key \in {ChildPath(es[m].path, <<>>, x, cs),
                                  ChildPath(es[m].short, <<>>, x, cs)}
                         => /\ ret.value # <<x>>
                            /\ value.type.kind # "struct"
                                 => ret.status = OK /\ ret.value = <<>>
                            /\ \A v \in AllFields(<<value>>) :
                                  (/\ value.type.kind = "struct"
                                   /\ \E i \in 1..Len(value.type.fields) :
                                         v = value.type.fields[i]
                                   /\ key = ChildPath(es[m].short, <<>>, v, cs))
                                    => ret.status = OK /\ ret.value = <<v>>
             /\ \A c \in ElementChildren(es[m].field) :
                   key = ChildPath(es[m].short, <<>>, c, cs)
                     => ret.status = OK /\ ret.value = <<c>>

\* C26 amended: "m.key.x" resolves to x and "m.x" never resolves to x.  A
\* shortened path resolves to the value's child, or to the child of the
\* struct list element, provided it is not the canonical path of a field and
\* no field visited earlier has it as its short path; "m.x" is not found
\* when the value is not a struct and no field has it as a path.
C26_KeyNeverShortensUnlessOwned ==
  (/\ ret.op = "FindFieldByName"
   /\ UniqueIds(schema)
   /\ UniquePaths(schema, ret.case_sensitive))
    => LET cs == ret.case_sensitive
           es == Entries(schema, cs)
           key == Searched(ret.name, cs)
           FirstShortOwner(f) ==
             /\ CanonicalOwners(es, key) = {}
             /\ ShortOwners(es, key) # {}
             /\ es[First(ShortOwners(es, key))].field = f
       IN \A m \in 1..Len(es) :
             /\ \A x \in KeyChildren(es[m].field) :
                   LET value == es[m].field.type.fields[2]
                   IN /\ key = ChildPath(es[m].path, Dot \o kKeyName, x, cs)
                         => ret.status = OK /\ ret.value = <<x>>
                      /\ key \in {ChildPath(es[m].path, <<>>, x, cs),
                                  ChildPath(es[m].short, <<>>, x, cs)}
                         => /\ ret.value # <<x>>
                            /\ (/\ value.type.kind # "struct"
                                /\ CanonicalOwners(es, key) = {}
                                /\ ShortOwners(es, key) = {})
                                 => ret.status = OK /\ ret.value = <<>>
                            /\ \A v \in AllFields(<<value>>) :
                                  (/\ value.type.kind = "struct"
                                   /\ \E i \in 1..Len(value.type.fields) :
                                         v = value.type.fields[i]
                                   /\ key = ChildPath(es[m].short, <<>>, v, cs)
                                   /\ FirstShortOwner(v))
                                    => ret.status = OK /\ ret.value = <<v>>
             /\ \A c \in ElementChildren(es[m].field) :
                   (/\ key = ChildPath(es[m].short, <<>>, c, cs)
                    /\ FirstShortOwner(c))
                     => ret.status = OK /\ ret.value = <<c>>

\* "m.x" on a map whose struct key and struct value both have a child x
\* returns the child of the value.
C26_Witness ==
  /\ ret.op = "FindFieldByName"
  /\ UniqueIds(schema)
  /\ UniquePaths(schema, ret.case_sensitive)
  /\ LET cs == ret.case_sensitive
         es == Entries(schema, cs)
     IN \E m \in 1..Len(es) :
           \E x \in KeyChildren(es[m].field) :
              LET value == es[m].field.type.fields[2]
              IN /\ value.type.kind = "struct"
                 /\ Searched(ret.name, cs) = ChildPath(es[m].short, <<>>, x, cs)
                 /\ \E i \in 1..Len(value.type.fields) :
                       /\ value.type.fields[i].name = x.name
                       /\ ret.value = <<value.type.fields[i]>>
                 /\ ret.status = OK

\* A cache has been built successfully: its flag is set and its Init
\* function, which ran on the empty cache, returns without error.
IdToFieldBuilt ==
  id_to_field_flag_ /\ InitIdToFieldMap(schema, NewCaches).status = OK

NameToIdBuilt ==
  name_to_id_flag_ /\ InitNameToIdMap(schema, NewCaches).status = OK

LowerCaseNameToIdBuilt ==
  /\ lowercase_name_to_id_flag_
  /\ InitLowerCaseNameToIdMap(schema, NewCaches).status = OK

\* The last call was a lookup, the caches it reads have been built
\* successfully, and the next call repeats it with the same arguments.
RepeatedLookup ==
  /\ ret'.op = ret.op
  /\ \/ /\ ret.op = "FindFieldById"
        /\ ret'.field_id = ret.field_id
        /\ IdToFieldBuilt
     \/ /\ ret.op = "FindFieldByName"
        /\ ret'.name = ret.name
        /\ ret'.case_sensitive = ret.case_sensitive
        /\ IdToFieldBuilt
        /\ IF ret.case_sensitive THEN NameToIdBuilt ELSE LowerCaseNameToIdBuilt

\* C27: once a cache has been built successfully, no FindFieldById,
\* FindFieldByName, select or project call adds, overwrites or removes an
\* entry of it, its Init function returns without touching it, and a lookup
\* repeated with the same arguments returns the same result.
C27_BuiltCacheNeverChanges ==
  [][/\ IdToFieldBuilt
          => /\ id_to_field_' = id_to_field_
             /\ id_to_field_flag_'
             /\ InitIdToFieldMap(schema, caches) = [caches |-> caches, status |-> OK]
     /\ NameToIdBuilt
          => /\ name_to_id_' = name_to_id_
             /\ name_to_id_flag_'
             /\ InitNameToIdMap(schema, caches) = [caches |-> caches, status |-> OK]
     /\ LowerCaseNameToIdBuilt
          => /\ lowercase_name_to_id_' = lowercase_name_to_id_
             /\ lowercase_name_to_id_flag_'
             /\ InitLowerCaseNameToIdMap(schema, caches)
                  = [caches |-> caches, status |-> OK]
     /\ RepeatedLookup => Answer(ret') = Answer(ret)]_vars

\* The three caches of a schema with fields have been built successfully and
\* the last call, made after the builds, was a project.
C27_Witness ==
  /\ IdToFieldBuilt
  /\ NameToIdBuilt
  /\ LowerCaseNameToIdBuilt
  /\ DOMAIN id_to_field_ # {}
  /\ DOMAIN name_to_id_ # {}
  /\ DOMAIN lowercase_name_to_id_ # {}
  /\ ret.op = "project"
  /\ ret.status = OK

\* The result type is the source type with fields left out: the fields of a
\* result struct are, in order, fields of the source struct with the same
\* id, name, optionality and doc, and their types are narrowed in the same
\* way; a list keeps its element id and a map its key and value ids.
RECURSIVE Narrowed(_, _)
RECURSIVE NarrowedFields(_, _)
Narrowed(result, source) ==
  /\ result.kind = source.kind
  /\ IF result.kind = "struct"
     THEN NarrowedFields(result.fields, source.fields)
     ELSE /\ Len(result.fields) = Len(source.fields)
          /\ \A i \in 1..Len(result.fields) :
                /\ result.fields[i].field_id = source.fields[i].field_id
                /\ Narrowed(result.fields[i].type, source.fields[i].type)

NarrowedFields(result, source) ==
  IF result = <<>> THEN TRUE
  ELSE IF source = <<>> THEN FALSE
  ELSE \/ /\ Head(result).field_id = Head(source).field_id
          /\ Head(result).name = Head(source).name
          /\ Head(result).optional = Head(source).optional
          /\ Head(result).doc = Head(source).doc
          /\ Narrowed(Head(result).type, Head(source).type)
          /\ NarrowedFields(Tail(result), Tail(source))
       \/ NarrowedFields(result, Tail(source))

\* C28: in every schema that select or project returns, each surviving
\* struct child field has the id, name, optionality and doc of its source
\* field, and at every struct level the result's fields are a subsequence
\* of the source's.
C28_SurvivorsKeepFieldAndOrder ==
  (IsSelectOrProject /\ ret.status = OK /\ ret.schema # <<>>)
    => NarrowedFields(ret.schema[1].fields, schema.fields)

\* A project that leaves out the first of three sibling fields, the second
\* of which has a doc, and at least one field below them.
C28_Witness ==
  /\ ret.op = "project"
  /\ ret.status = OK
  /\ ret.schema # <<>>
  /\ Len(schema.fields) >= 3
  /\ Len(ret.schema[1].fields) = 2
  /\ ret.schema[1].fields[1].field_id = schema.fields[2].field_id
  /\ ret.schema[1].fields[2].field_id = schema.fields[3].field_id
  /\ \E i \in 1..2 :
        /\ ret.schema[1].fields[i].doc # <<>>
        /\ ret.schema[1].fields[i].type.kind = "struct"
        /\ ret.schema[1].fields[i].type # schema.fields[i + 1].type

\* C29: project is idempotent.  When project(ids) on a schema succeeds with
\* result R, project(ids) on R succeeds and returns a schema equal to R,
\* also when R has empty structs.
C29_ProjectIdempotent ==
  (ret.op = "project" /\ ret.status = OK /\ ret.schema # <<>>)
    => LET Again(r) == /\ r.status = OK
                       /\ r.schema # <<>>
                       /\ Equals(r.schema[1], ret.schema[1])
       IN Again(project(ret.schema[1], NewCaches, ret.selected_ids))

\* The first result has an empty struct and a narrowed struct.
C29_Witness ==
  /\ ret.op = "project"
  /\ ret.status = OK
  /\ ret.schema # <<>>
  /\ ret.schema[1].fields # schema.fields
  /\ \E f, g \in AllFields(ret.schema[1].fields) :
        /\ f.type = StructType(<<>>)
        /\ g.type.kind = "struct"
        /\ g.type.fields # <<>>
        /\ \E h \in AllFields(schema.fields) :
              h.field_id = g.field_id /\ h.type # g.type
  /\ project(ret.schema[1], NewCaches, ret.selected_ids).schema = ret.schema

\* C30: on a schema with unique ids whose canonical paths are distinct but
\* collide after lowercasing, in any interleaving of calls every
\* FindFieldByName(name, false) returns InvalidSchema, while
\* FindFieldByName(name, true) and FindFieldById return the right field.
C30_IndexesFailIndependently ==
  (/\ UniqueIds(schema)
   /\ UniquePaths(schema, TRUE)
   /\ HasDuplicatePath(schema, FALSE))
    => /\ (ret.op = "FindFieldByName" /\ ~ret.case_sensitive)
            => ret.status.kind = "InvalidSchema" /\ ret.value = <<>>
       /\ (ret.op = "FindFieldByName" /\ ret.case_sensitive)
            => /\ ret.status = OK
               /\ ret.value = IndexedField(schema, TRUE, ret.name)
       /\ ret.op = "FindFieldById"
            => /\ ret.status = OK
               /\ ret.value # <<>>
                    => /\ ret.value[1] \in AllFields(schema.fields)
                       /\ ret.value[1].field_id = ret.field_id
               /\ ret.value = <<>>
                    => \A f \in AllFields(schema.fields) : f.field_id # ret.field_id

====
